---- MODULE Spec2Model ----
(***************************************************************************)
(* midiocrePiano: conversion of a Standard MIDI File into a time-ordered   *)
(* solenoid event stream (App/midi_to_solenoid.py).                        *)
(*                                                                         *)
(* One call of midi_to_solenoid_events is a sequence of steps (pc) over    *)
(* the call's locals.  mido.MidiFile and mido.merge_tracks are library     *)
(* calls; they are modelled by what the library does at the call sites.    *)
(***************************************************************************)
EXTENDS Integers, Sequences, FiniteSets, TLC

(***************************************************************************)
(* Python arithmetic of _ticks_to_ms.                                      *)
(*                                                                         *)
(* ticks * tempo_us_per_beat is an exact Python int, "/" is float true     *)
(* division (IEEE-754 binary64, round-half-even), int() truncates.         *)
(* Naturals too large for 32-bit integers are little-endian               *)
(* sequences of limbs; a float is m * 2^e with m of exactly MantBits bits  *)
(* (or m = <<>> for 0.0).                                                  *)
(***************************************************************************)
LimbBits == 15

Limb == 2 ^ LimbBits

MantBits == 53

RECURSIVE BigFromInt(_)
BigFromInt(n) ==
    IF n = 0 THEN << >> ELSE <<n % Limb>> \o BigFromInt(n \div Limb)

RECURSIVE BigToInt(_)
BigToInt(a) ==
    IF a = << >> THEN 0 ELSE Head(a) + Limb * BigToInt(Tail(a))

RECURSIVE BigTrim(_)
BigTrim(a) ==
    IF a # << >> /\ a[Len(a)] = 0
    THEN BigTrim(SubSeq(a, 1, Len(a) - 1))
    ELSE a

\* a * s + c for a limb-sized s
RECURSIVE BigMulSmall(_, _, _)
BigMulSmall(a, s, c) ==
    IF a = << >>
    THEN BigFromInt(c)
    ELSE LET v == Head(a) * s + c
         IN  <<v % Limb>> \o BigMulSmall(Tail(a), s, v \div Limb)

RECURSIVE BigAdd(_, _, _)
BigAdd(a, b, c) ==
    IF a = << >> /\ b = << >>
    THEN BigFromInt(c)
    ELSE LET x == IF a = << >> THEN 0 ELSE Head(a)
             y == IF b = << >> THEN 0 ELSE Head(b)
             v == x + y + c
         IN  <<v % Limb>>
             \o BigAdd(IF a = << >> THEN a ELSE Tail(a),
                       IF b = << >> THEN b ELSE Tail(b),
                       v \div Limb)

RECURSIVE BigMul(_, _)
BigMul(a, b) ==
    IF a = << >> \/ b = << >>
    THEN << >>
    ELSE BigTrim(BigAdd(BigMulSmall(a, Head(b), 0),
                        IF Tail(b) = << >> THEN << >>
                        ELSE <<0>> \o BigMul(a, Tail(b)),
                        0))

\* quotient and remainder of a by d, 0 < d <= Limb
RECURSIVE BigDivMod(_, _)
BigDivMod(a, d) ==
    IF a = << >>
    THEN [q |-> << >>, r |-> 0]
    ELSE LET hi == BigDivMod(Tail(a), d)
             v  == hi.r * Limb + Head(a)
         IN  [q |-> <<v \div d>> \o hi.q, r |-> v % d]

BigDiv(a, d) == BigTrim(BigDivMod(a, d).q)

RECURSIVE IntBitLen(_)
IntBitLen(n) == IF n = 0 THEN 0 ELSE 1 + IntBitLen(n \div 2)

BigBitLen(a) ==
    IF a = << >> THEN 0
    ELSE LimbBits * (Len(a) - 1) + IntBitLen(a[Len(a)])

BigBit(a, i) ==
    IF i \div LimbBits + 1 > Len(a) THEN 0
    ELSE (a[i \div LimbBits + 1] \div (2 ^ (i % LimbBits))) % 2

\* are the k lowest bits of a all zero
BigLowZero(a, k) ==
    /\ \A j \in 1..(k \div LimbBits) : j > Len(a) \/ a[j] = 0
    /\ \/ k \div LimbBits + 1 > Len(a)
       \/ a[k \div LimbBits + 1] % (2 ^ (k % LimbBits)) = 0

BigShl(a, k) ==
    IF a = << >> THEN << >>
    ELSE [j \in 1..(k \div LimbBits) |-> 0]
         \o BigTrim(BigMulSmall(a, 2 ^ (k % LimbBits), 0))

BigShr(a, k) ==
    IF k \div LimbBits >= Len(a) THEN << >>
    ELSE BigDiv(SubSeq(a, k \div LimbBits + 1, Len(a)), 2 ^ (k % LimbBits))

\* the float nearest to (a * 2^e0) / d, ties to even
FloatDiv(a, e0, d) ==
    IF a = << >> THEN [m |-> << >>, e |-> 0]
    ELSE LET need == MantBits + 2 + IntBitLen(d)
             s    == IF need > BigBitLen(a) THEN need - BigBitLen(a) ELSE 0
             dm   == BigDivMod(BigShl(a, s), d)
             Q    == BigTrim(dm.q)
             drop == BigBitLen(Q) - MantBits
             m0   == BigShr(Q, drop)
             up   == /\ BigBit(Q, drop - 1) = 1
                     /\ \/ dm.r # 0
                        \/ ~BigLowZero(Q, drop - 1)
                        \/ BigBit(m0, 0) = 1
             m1   == IF up THEN BigTrim(BigAdd(m0, <<1>>, 0)) ELSE m0
         IN  IF BigBitLen(m1) > MantBits
             THEN [m |-> BigShr(m1, 1), e |-> e0 - s + drop + 1]
             ELSE [m |-> m1, e |-> e0 - s + drop]

\* int(x) of a non-negative float
FloatToInt(x) ==
    IF x.e >= 0 THEN BigShl(x.m, x.e) ELSE BigShr(x.m, 0 - x.e)

\* ticks and tempo_us_per_beat are not negative and ticks_per_beat is not 0;
\* a negative ticks_per_beat gives the quotients their sign, the float
\* divisions round the magnitude alike and int() truncates toward zero
_ticks_to_ms(ticks, ticks_per_beat, tempo_us_per_beat) ==
    LET d  == IF ticks_per_beat < 0 THEN 0 - ticks_per_beat ELSE ticks_per_beat
        us == FloatDiv(BigMul(BigFromInt(ticks), BigFromInt(tempo_us_per_beat)),
                       0, d)
        ms == BigToInt(FloatToInt(FloatDiv(us.m, us.e, 1000)))
    IN  IF ticks_per_beat < 0 THEN 0 - ms ELSE ms

(***************************************************************************)
(* MIDI documents as mido yields them: a header value ticks_per_beat and   *)
(* a list of tracks, each a list of messages whose time is the delta in    *)
(* ticks since the previous message of the same track.                     *)
(***************************************************************************)
NoteOn(delta, note, velocity) ==
    [type |-> "note_on", time |-> delta, note |-> note,
     velocity |-> velocity, tempo |-> 0]

\* a note_off carries a release velocity (mido's default is 64)
NoteOff(delta, note) ==
    [type |-> "note_off", time |-> delta, note |-> note,
     velocity |-> 64, tempo |-> 0]

SetTempo(delta, tempo) ==
    [type |-> "set_tempo", time |-> delta, note |-> 0,
     velocity |-> 0, tempo |-> tempo]

ControlChange(delta) ==
    [type |-> "control_change", time |-> delta, note |-> 0,
     velocity |-> 0, tempo |-> 0]

EndOfTrack(delta) ==
    [type |-> "end_of_track", time |-> delta, note |-> 0,
     velocity |-> 0, tempo |-> 0]

\* the messages the enumerated documents are built from
MsgAlphabet ==
    { NoteOn(0, 60, 100), NoteOn(0, 64, 90), NoteOn(240, 60, 0),
      NoteOff(480, 60), NoteOff(480, 64),
      SetTempo(0, 250000), SetTempo(480, 1000000),
      ControlChange(1), EndOfTrack(0) }

MaxTracks == 2

MaxMsgs == 2

MaxCalls == 2

TracksOfLen(n) == [1..n -> MsgAlphabet]

\* every list of k tracks holding at most budget messages in all
RECURSIVE TrackLists(_, _)
TrackLists(k, budget) ==
    IF k = 0 THEN { << >> }
    ELSE UNION { { <<t>> \o rest : rest \in TrackLists(k - 1, budget - Len(t)) } :
                 t \in UNION { TracksOfLen(n) : n \in 0..budget } }

MidiFile(ticks_per_beat, tracks) ==
    [exists |-> TRUE, valid |-> TRUE,
     ticks_per_beat |-> ticks_per_beat, tracks |-> tracks]

\* a path that names no file, and a file that is no MIDI container
MissingFile ==
    [exists |-> FALSE, valid |-> FALSE, ticks_per_beat |-> 0, tracks |-> << >>]

MalformedFile ==
    [exists |-> TRUE, valid |-> FALSE, ticks_per_beat |-> 0, tracks |-> << >>]

\* a repeated note, and a two-track song with a tempo track
RepeatedNoteFile ==
    MidiFile(480, << <<NoteOn(0, 60, 100), NoteOn(240, 60, 80), NoteOff(480, 60),
                       EndOfTrack(0)>> >>)

TwoTrackSongFile ==
    MidiFile(480, << <<SetTempo(0, 250000), EndOfTrack(0)>>,
                     <<NoteOn(0, 60, 100), NoteOn(0, 64, 90), NoteOff(480, 60),
                       NoteOff(480, 64), EndOfTrack(0)>> >>)

\* a long, slow song: a note at absolute tick 3 * 268435455 + 438254
\* (268435455 is the largest delta a variable-length quantity holds)
LongSongFile ==
    MidiFile(24576, << <<SetTempo(0, 16777021), ControlChange(268435455),
                         ControlChange(268435455), ControlChange(268435455),
                         NoteOn(438254, 60, 100), NoteOff(1, 60),
                         EndOfTrack(0)>> >>)

\* a file whose header declares an SMPTE division, 25 frames per second and
\* 40 ticks per frame (bytes E7 28): mido unpacks the division as a signed
\* 16-bit number and hands it on as ticks_per_beat
SmpteFile(tracks) == MidiFile(0 - 6360, tracks)

SmpteFiles ==
    { SmpteFile(ts) : ts \in TrackLists(1, MaxMsgs) }
    \cup { SmpteFile(TwoTrackSongFile.tracks) }

ScenarioFiles == { RepeatedNoteFile, TwoTrackSongFile, LongSongFile }

Files ==
    { MissingFile, MalformedFile }
    \cup ScenarioFiles
    \cup { MidiFile(480, ts) :
             ts \in UNION { TrackLists(k, MaxMsgs) : k \in 0..MaxTracks } }

(***************************************************************************)
(* Library and helper functions the conversion calls.                      *)
(***************************************************************************)
\* list.sort(key=...): ascending by key, stable; keys[i] is the key of s[i]
list_sort(s, keys) ==
    LET n == Len(s)
        rank(i) == 1 + Cardinality({ j \in 1..n :
                           \/ keys[j] < keys[i]
                           \/ keys[j] = keys[i] /\ j < i })
    IN  [r \in 1..n |-> s[CHOOSE i \in 1..n : rank(i) = r]]

\* mido: delta times of one track to absolute ticks
RECURSIVE to_abstime(_, _)
to_abstime(messages, now) ==
    IF Len(messages) = 0 THEN << >>
    ELSE LET msg == Head(messages)
         IN  <<[msg EXCEPT !.time = now + msg.time]>>
             \o to_abstime(Tail(messages), now + msg.time)

\* mido: absolute ticks back to deltas along one stream
RECURSIVE to_reltime(_, _)
to_reltime(messages, now) ==
    IF Len(messages) = 0 THEN << >>
    ELSE LET msg == Head(messages)
         IN  <<[msg EXCEPT !.time = msg.time - now]>>
             \o to_reltime(Tail(messages), msg.time)

\* mido: drop every end_of_track, carrying its delta to the next message,
\* and close the stream with a single end_of_track
RECURSIVE fix_end_of_track(_, _)
fix_end_of_track(messages, accum) ==
    IF Len(messages) = 0 THEN <<EndOfTrack(accum)>>
    ELSE LET msg == Head(messages)
         IN  IF msg.type = "end_of_track"
             THEN fix_end_of_track(Tail(messages), accum + msg.time)
             ELSE <<[msg EXCEPT !.time = accum + msg.time]>>
                  \o fix_end_of_track(Tail(messages), 0)

\* the messages of all tracks, one track after the other
RECURSIVE Chain(_)
Chain(lists) ==
    IF Len(lists) = 0 THEN << >> ELSE Head(lists) \o Chain(Tail(lists))

\* variants of the merge: a message is lost when an earlier one of the
\* stream lies at the same tick; the tracks are chained without sorting
merge_tracks_one_per_tick(tracks) ==
    LET messages == Chain([t \in 1..Len(tracks) |-> to_abstime(tracks[t], 0)])
        sorted   == list_sort(messages,
                              [i \in 1..Len(messages) |-> messages[i].time])
        kept     == SelectSeq([i \in 1..Len(sorted) |->
                                  [m |-> sorted[i],
                                   first |-> \A j \in 1..(i - 1) :
                                        sorted[j].time # sorted[i].time]],
                              LAMBDA x : x.first)
    IN  fix_end_of_track(
            to_reltime([i \in 1..Len(kept) |-> kept[i].m], 0), 0)

merge_tracks_unsorted(tracks) ==
    LET messages == Chain([t \in 1..Len(tracks) |-> to_abstime(tracks[t], 0)])
    IN  fix_end_of_track(to_reltime(messages, 0), 0)

\* mido.merge_tracks: absolute times, one stable sort by time, deltas again
merge_tracks(tracks) ==
    LET messages == Chain([t \in 1..Len(tracks) |-> to_abstime(tracks[t], 0)])
        sorted   == list_sort(messages,
                              [i \in 1..Len(messages) |-> messages[i].time])
    IN  fix_end_of_track(to_reltime(sorted, 0), 0)

DefaultTempo == 500000

\* variant: no default, 0 when the file sets no tempo
_extract_tempo_no_default(tracks) ==
    LET all == Chain(tracks)
        at  == { i \in 1..Len(all) : all[i].type = "set_tempo" }
    IN  IF at = {} THEN 0
        ELSE all[CHOOSE i \in at : \A j \in at : i <= j].tempo

\* the first set_tempo met walking track by track, message by message
_extract_tempo_us_per_beat(tracks) ==
    LET all == Chain(tracks)
        at  == { i \in 1..Len(all) : all[i].type = "set_tempo" }
    IN  IF at = {} THEN DefaultTempo
        ELSE all[CHOOSE i \in at : \A j \in at : i <= j].tempo

\* variants of the sort: by the wrong key, descending, ties reversed
sort_events_by_note(evs) ==
    list_sort(evs, [i \in 1..Len(evs) |-> evs[i].note])

sort_events_descending(evs) ==
    list_sort(evs, [i \in 1..Len(evs) |-> 0 - evs[i].time_ms])

sort_events_unstable(evs) ==
    LET n == Len(evs)
        rank(i) == 1 + Cardinality({ j \in 1..n :
                           \/ evs[j].time_ms < evs[i].time_ms
                           \/ evs[j].time_ms = evs[i].time_ms /\ j > i })
    IN  [r \in 1..n |-> evs[CHOOSE i \in 1..n : rank(i) = r]]

\* events.sort(key=lambda e: e.time_ms)
sort_events(evs) ==
    list_sort(evs, [i \in 1..Len(evs) |-> evs[i].time_ms])

SolenoidEvent(time_ms, note, velocity, type) ==
    [time_ms |-> time_ms, note |-> note, velocity |-> velocity, type |-> type]

\* str(note), as its decimal digits
RECURSIVE str(_)
str(n) ==
    IF n < 10 THEN <<n>> ELSE str(n \div 10) \o <<n % 10>>

(***************************************************************************)
(* State.  file is the input the path names; NOTE_TO_CHANNEL is the        *)
(* module-level mapping; results are the outcomes of the calls made so     *)
(* far; the rest are the locals of the call in progress (a local holds a   *)
(* placeholder until its assignment runs).  These belong to the thread     *)
(* that is running; other holds the same for a second thread, which is     *)
(* waiting: its argument, its outcomes and the frame of its call.          *)
(***************************************************************************)
VARIABLES file, NOTE_TO_CHANNEL, results, pc, mid, ticks_per_beat,
          tempo_us_per_beat, merged, pos, current_ticks, events, active_notes,
          other

\* The uploader window: the file it holds, the search results and the row
\* selected in their listbox, the state of the Download button, whether the
\* results widgets are shown, and the downloads started so far (each a
\* worker thread, then a callback queued for the main loop); the state of
\* the Process button and whether it is on screen, and the conversions
\* started so far (each a processing window, a worker thread, then a
\* callback queued for the main loop)
VARIABLES selected_file, search_results, curselection, download_button,
          results_visible, downloads, process_button, process_mapped,
          conversions

gui == <<selected_file, search_results, curselection, download_button,
         results_visible, downloads, process_button, process_mapped,
         conversions>>

vars == <<file, NOTE_TO_CHANNEL, results, pc, mid, ticks_per_beat,
          tempo_us_per_beat, merged, pos, current_ticks, events, active_notes,
          other, gui>>

locals == <<mid, ticks_per_beat, tempo_us_per_beat, merged, pos,
            current_ticks, events, active_notes>>

EmptyDict == [n \in {} |-> 0]

Raised(error) == [status |-> "raised", error |-> error]

Returned(value) == [status |-> "returned", value |-> value]

\* MidiUploader.__init__
InitGui ==
    /\ selected_file = "None"
    /\ search_results = << >>
    /\ curselection = 0
    /\ download_button = "disabled"
    /\ results_visible = FALSE
    /\ downloads = << >>
    /\ process_button = "normal"
    /\ process_mapped = FALSE
    /\ conversions = << >>

InitState ==
    /\ InitGui
    /\ NOTE_TO_CHANNEL = EmptyDict
    /\ results = << >>
    /\ pc = "idle"
    /\ mid = [ticks_per_beat |-> 0, tracks |-> << >>]
    /\ ticks_per_beat = 0
    /\ tempo_us_per_beat = 0
    /\ merged = << >>
    /\ pos = 0
    /\ current_ticks = 0
    /\ events = << >>
    /\ active_notes = EmptyDict

\* the frame of a thread that has made no call on f yet
IdleFrame(f) ==
    [file |-> f, results |-> << >>, pc |-> "idle",
     mid |-> [ticks_per_beat |-> 0, tracks |-> << >>],
     ticks_per_beat |-> 0, tempo_us_per_beat |-> 0, merged |-> << >>,
     pos |-> 0, current_ticks |-> 0, events |-> << >>,
     active_notes |-> EmptyDict]

Init ==
    /\ file \in Files
    /\ other = IdleFrame(MissingFile)
    /\ InitState

\* midi_to_solenoid_events(path) is called and the path names a file
Call ==
    /\ pc = "idle"
    /\ Len(results) < MaxCalls
    /\ file.exists
    /\ pc' = "load"
    /\ UNCHANGED <<gui, file, other, NOTE_TO_CHANNEL, results, locals>>

\* variant: a missing file is taken for a song without events
CallMissingReturnsEmpty ==
    /\ pc = "idle"
    /\ Len(results) < MaxCalls
    /\ ~file.exists
    /\ results' = Append(results, Returned(
           [ticks_per_beat    |-> 480,
            tempo_us_per_beat |-> DefaultTempo,
            events            |-> << >>,
            note_to_channel   |-> EmptyDict]))
    /\ UNCHANGED <<gui, file, other, NOTE_TO_CHANNEL, pc, locals>>

\* ... or names none: raise FileNotFoundError
CallMissing ==
    /\ pc = "idle"
    /\ Len(results) < MaxCalls
    /\ ~file.exists
    /\ results' = Append(results, Raised("FileNotFoundError"))
    /\ UNCHANGED <<gui, file, other, NOTE_TO_CHANNEL, pc, locals>>

\* mid = mido.MidiFile(midi_path)
LoadFile ==
    /\ pc = "load"
    /\ file.valid
    /\ mid' = [ticks_per_beat |-> file.ticks_per_beat, tracks |-> file.tracks]
    /\ pc' = "header"
    /\ UNCHANGED <<gui, file, other, NOTE_TO_CHANNEL, results, ticks_per_beat,
                   tempo_us_per_beat, merged, pos, current_ticks, events,
                   active_notes>>

\* variant: a failed parse is swallowed and whatever was read is used
LoadFileLenient ==
    /\ pc = "load"
    /\ ~file.valid
    /\ mid' = [ticks_per_beat |-> file.ticks_per_beat, tracks |-> file.tracks]
    /\ pc' = "header"
    /\ UNCHANGED <<gui, file, other, NOTE_TO_CHANNEL, results, ticks_per_beat,
                   tempo_us_per_beat, merged, pos, current_ticks, events,
                   active_notes>>

\* the parser raises on bytes that are no MIDI container; nothing catches it
LoadFileRaise ==
    /\ pc = "load"
    /\ ~file.valid
    /\ results' = Append(results, Raised("ParseError"))
    /\ pc' = "idle"
    /\ UNCHANGED <<gui, file, other, NOTE_TO_CHANNEL, locals>>

ReadHeader ==
    /\ pc = "header"
    /\ ticks_per_beat' = mid.ticks_per_beat
    /\ tempo_us_per_beat' = _extract_tempo_us_per_beat(mid.tracks)
    /\ pc' = "init"
    /\ UNCHANGED <<gui, file, other, NOTE_TO_CHANNEL, results, mid, merged, pos,
                   current_ticks, events, active_notes>>

\* variant: the events list outlives the call instead of starting empty
StartWalkSharedEvents ==
    /\ pc = "init"
    /\ current_ticks' = 0
    /\ active_notes' = EmptyDict
    /\ merged' = merge_tracks(mid.tracks)
    /\ pos' = 1
    /\ pc' = "walk"
    /\ UNCHANGED <<gui, file, other, NOTE_TO_CHANNEL, results, mid, ticks_per_beat,
                   tempo_us_per_beat, events>>

StartWalk ==
    /\ pc = "init"
    /\ current_ticks' = 0
    /\ events' = << >>
    /\ active_notes' = EmptyDict
    /\ merged' = merge_tracks(mid.tracks)
    /\ pos' = 1
    /\ pc' = "walk"
    /\ UNCHANGED <<gui, file, other, NOTE_TO_CHANNEL, results, mid, ticks_per_beat,
                   tempo_us_per_beat>>

\* one iteration of the loop over the merged stream
AtMessage == pc = "walk" /\ pos <= Len(merged)

msg == merged[pos]

Advance ==
    /\ current_ticks' = current_ticks + msg.time
    /\ pos' = pos + 1
    /\ UNCHANGED <<gui, file, other, NOTE_TO_CHANNEL, results, pc, mid, ticks_per_beat,
                   tempo_us_per_beat, merged>>

\* variant: a set_tempo met during the walk replaces the tempo in use
WalkSetTempoApplied ==
    /\ AtMessage
    /\ msg.type = "set_tempo"
    /\ current_ticks' = current_ticks + msg.time
    /\ pos' = pos + 1
    /\ tempo_us_per_beat' = msg.tempo
    /\ UNCHANGED <<gui, file, other, NOTE_TO_CHANNEL, results, pc, mid, ticks_per_beat,
                   merged, events, active_notes>>

WalkSetTempo ==
    /\ AtMessage
    /\ msg.type = "set_tempo"
    /\ Advance
    /\ UNCHANGED <<events, active_notes>>

\* variant: the first activation of a pending note keeps its tick
WalkNoteOnFirstWins ==
    /\ AtMessage
    /\ msg.type = "note_on" /\ msg.velocity > 0
    /\ Advance
    /\ active_notes' = [n \in DOMAIN active_notes \cup {msg.note} |->
                           IF n \in DOMAIN active_notes THEN active_notes[n]
                           ELSE current_ticks']
    /\ events' = Append(events,
                   SolenoidEvent(_ticks_to_ms(current_ticks', ticks_per_beat,
                                              tempo_us_per_beat),
                                 msg.note, msg.velocity, "on"))

WalkNoteOn ==
    /\ AtMessage
    /\ msg.type = "note_on" /\ msg.velocity > 0
    /\ Advance
    /\ active_notes' = [n \in DOMAIN active_notes \cup {msg.note} |->
                           IF n = msg.note THEN current_ticks'
                           ELSE active_notes[n]]
    /\ events' = Append(events,
                   SolenoidEvent(_ticks_to_ms(current_ticks', ticks_per_beat,
                                              tempo_us_per_beat),
                                 msg.note, msg.velocity, "on"))

\* variant: a deactivation nothing matches is dropped
WalkNoteOffMatchedOnly ==
    /\ AtMessage
    /\ msg.type \in {"note_off", "note_on"}
    /\ ~(msg.type = "note_on" /\ msg.velocity > 0)
    /\ Advance
    /\ active_notes' = [n \in DOMAIN active_notes \ {msg.note} |->
                           active_notes[n]]
    /\ events' = IF msg.note \in DOMAIN active_notes
                 THEN Append(events,
                        SolenoidEvent(_ticks_to_ms(current_ticks', ticks_per_beat,
                                                   tempo_us_per_beat),
                                      msg.note, 0, "off"))
                 ELSE events

\* variant: the "off" event keeps the message's own velocity
WalkNoteOffKeepsVelocity ==
    /\ AtMessage
    /\ msg.type \in {"note_off", "note_on"}
    /\ ~(msg.type = "note_on" /\ msg.velocity > 0)
    /\ Advance
    /\ active_notes' = [n \in DOMAIN active_notes \ {msg.note} |->
                           active_notes[n]]
    /\ events' = Append(events,
                   SolenoidEvent(_ticks_to_ms(current_ticks', ticks_per_beat,
                                              tempo_us_per_beat),
                                 msg.note, msg.velocity, "off"))

\* variant: the pop has no default, a deactivation nothing matches raises
WalkNoteOffKeyError ==
    /\ AtMessage
    /\ msg.type \in {"note_off", "note_on"}
    /\ ~(msg.type = "note_on" /\ msg.velocity > 0)
    /\ IF msg.note \in DOMAIN active_notes
       THEN /\ Advance
            /\ active_notes' = [n \in DOMAIN active_notes \ {msg.note} |->
                                   active_notes[n]]
            /\ events' = Append(events,
                   SolenoidEvent(_ticks_to_ms(current_ticks', ticks_per_beat,
                                              tempo_us_per_beat),
                                 msg.note, 0, "off"))
       ELSE /\ results' = Append(results, Raised("KeyError"))
            /\ pc' = "idle"
            /\ UNCHANGED <<gui, file, other, NOTE_TO_CHANNEL, locals>>

WalkNoteOff ==
    /\ AtMessage
    /\ msg.type \in {"note_off", "note_on"}
    /\ ~(msg.type = "note_on" /\ msg.velocity > 0)
    /\ Advance
    /\ active_notes' = [n \in DOMAIN active_notes \ {msg.note} |->
                           active_notes[n]]
    /\ events' = Append(events,
                   SolenoidEvent(_ticks_to_ms(current_ticks', ticks_per_beat,
                                              tempo_us_per_beat),
                                 msg.note, 0, "off"))

WalkOther ==
    /\ AtMessage
    /\ msg.type \notin {"set_tempo", "note_on", "note_off"}
    /\ Advance
    /\ UNCHANGED <<events, active_notes>>

SortEvents ==
    /\ pc = "walk"
    /\ pos > Len(merged)
    /\ events' = sort_events(events)
    /\ pc' = "return"
    /\ UNCHANGED <<gui, file, other, NOTE_TO_CHANNEL, results, mid, ticks_per_beat,
                   tempo_us_per_beat, merged, pos, current_ticks, active_notes>>

\* variant: the call gives every note it met the next free channel of the
\* module-level mapping
ReturnAssignsChannels ==
    /\ pc = "return"
    /\ NOTE_TO_CHANNEL' =
          [n \in DOMAIN NOTE_TO_CHANNEL
                   \cup { events[i].note : i \in 1..Len(events) } |->
              IF n \in DOMAIN NOTE_TO_CHANNEL THEN NOTE_TO_CHANNEL[n]
              ELSE Cardinality(DOMAIN NOTE_TO_CHANNEL)]
    /\ results' = Append(results, Returned(
           [ticks_per_beat    |-> ticks_per_beat,
            tempo_us_per_beat |-> tempo_us_per_beat,
            events            |-> events,
            note_to_channel   |->
                [k \in { str(n) : n \in DOMAIN NOTE_TO_CHANNEL' } |->
                    NOTE_TO_CHANNEL'[CHOOSE n \in DOMAIN NOTE_TO_CHANNEL' :
                                        str(n) = k]]]))
    /\ pc' = "idle"
    /\ UNCHANGED <<gui, file, other, locals>>

Return ==
    /\ pc = "return"
    /\ results' = Append(results, Returned(
           [ticks_per_beat    |-> ticks_per_beat,
            tempo_us_per_beat |-> tempo_us_per_beat,
            events            |-> events,
            note_to_channel   |->
                [k \in { str(n) : n \in DOMAIN NOTE_TO_CHANNEL } |->
                    NOTE_TO_CHANNEL[CHOOSE n \in DOMAIN NOTE_TO_CHANNEL :
                                        str(n) = k]]]))
    /\ pc' = "idle"
    /\ UNCHANGED <<gui, file, other, NOTE_TO_CHANNEL, locals>>

Next ==
    \/ Call
    \/ CallMissing
    \/ LoadFile
    \/ LoadFileRaise
    \/ ReadHeader
    \/ StartWalk
    \/ WalkSetTempo
    \/ WalkNoteOn
    \/ WalkNoteOff
    \/ WalkOther
    \/ SortEvents
    \/ Return

Spec == Init /\ [][Next]_vars

\* the calls made on files of SMPTE division
InitSmpte ==
    /\ file \in {MissingFile, MalformedFile} \cup SmpteFiles
    /\ other = IdleFrame(MissingFile)
    /\ InitState

\* two threads, each calling midi_to_solenoid_events on a file of its own.
\* The interpreter interrupts the running thread between any two steps and
\* resumes the other: arguments and locals live in each thread's own frame,
\* the module-level NOTE_TO_CHANNEL is the same object for both.
Switch ==
    /\ other' = [file |-> file, results |-> results, pc |-> pc, mid |-> mid,
                 ticks_per_beat |-> ticks_per_beat,
                 tempo_us_per_beat |-> tempo_us_per_beat, merged |-> merged,
                 pos |-> pos, current_ticks |-> current_ticks,
                 events |-> events, active_notes |-> active_notes]
    /\ file' = other.file
    /\ results' = other.results
    /\ pc' = other.pc
    /\ mid' = other.mid
    /\ ticks_per_beat' = other.ticks_per_beat
    /\ tempo_us_per_beat' = other.tempo_us_per_beat
    /\ merged' = other.merged
    /\ pos' = other.pos
    /\ current_ticks' = other.current_ticks
    /\ events' = other.events
    /\ active_notes' = other.active_notes
    /\ UNCHANGED <<gui, NOTE_TO_CHANNEL>>

ThreadFiles ==
    { MissingFile, MalformedFile, RepeatedNoteFile, TwoTrackSongFile,
      MidiFile(480, << <<SetTempo(480, 1000000), ControlChange(1),
                         NoteOff(480, 64)>> >>) }

InitThreads ==
    /\ file \in ThreadFiles
    /\ other \in { IdleFrame(f) : f \in ThreadFiles }
    /\ InitState

NextThreads ==
    \/ Next
    \/ Switch

SpecThreads == InitThreads /\ [][NextThreads]_vars

(***************************************************************************)
(* The uploader window.  Handlers run one at a time on the main loop; a    *)
(* download runs on a worker thread and hands its completion back to the   *)
(* main loop with after(0, ...).                                           *)
(***************************************************************************)
MaxResults == 2

MaxDownloads == 2

\* the names a save dialog can return
SavePaths == {"a.mid"}

MaxConversions == 2

\* the names an open dialog can return
OpenPaths == {"c.mid"}

converter == <<file, NOTE_TO_CHANNEL, results, pc, locals, other>>

processing == <<process_button, process_mapped, conversions>>

\* perform_search with a query and a search that answers n results (an empty
\* query or a failed search returns before anything is changed)
perform_search(n) ==
    /\ search_results' = [i \in 1..n |-> i]
    /\ results_visible' = TRUE
    /\ curselection' = 0
    /\ download_button' = "disabled"
    /\ UNCHANGED <<selected_file, downloads, converter, processing>>

_on_source_change ==
    /\ search_results' = << >>
    /\ curselection' = 0
    /\ results_visible' = FALSE
    /\ download_button' = "disabled"
    /\ UNCHANGED <<selected_file, downloads, converter, processing>>

\* <<ListboxSelect>>: the user picks row i of the listbox on screen, or the
\* listbox loses its selection (i = 0)
_on_result_select(i) ==
    /\ results_visible
    /\ i # curselection
    /\ curselection' = i
    /\ download_button' = IF i # 0 THEN "normal" ELSE "disabled"
    /\ UNCHANGED <<selected_file, search_results, results_visible, downloads,
                   converter, processing>>

\* a click on the Download button, which a disabled or hidden button does
\* not deliver; the save dialog answers save_path (a cancelled dialog and
\* the other early returns change nothing)
download_selected_result(save_path) ==
    /\ results_visible /\ download_button = "normal"
    /\ Len(search_results) > 0
    /\ curselection # 0
    /\ Len(downloads) < MaxDownloads
    /\ download_button' = "disabled"
    /\ downloads' = Append(downloads, [phase |-> "running", error |-> FALSE,
                                        save_path |-> save_path])
    /\ UNCHANGED <<selected_file, search_results, curselection,
                   results_visible, converter, processing>>

\* the worker thread: download_midi_file ends, with or without an error,
\* and on_complete is queued for the main loop
do_download(d, error) ==
    /\ downloads[d].phase = "running"
    /\ downloads' = [downloads EXCEPT ![d].phase = "queued",
                                      ![d].error = error]
    /\ UNCHANGED <<selected_file, search_results, curselection,
                   download_button, results_visible, converter, processing>>

\* the main loop runs the queued on_complete of a download; a download
\* without error becomes the selected file and _show_process_button puts the
\* Process button on screen
on_complete(d) ==
    /\ downloads[d].phase = "queued"
    /\ downloads' = [downloads EXCEPT ![d].phase = "done"]
    /\ selected_file' = IF downloads[d].error THEN selected_file
                        ELSE downloads[d].save_path
    /\ process_mapped' = (process_mapped \/ ~downloads[d].error)
    /\ download_button' = IF Len(search_results) > 0 /\ curselection # 0
                          THEN "normal" ELSE "disabled"
    /\ UNCHANGED <<search_results, curselection, results_visible, converter,
                   process_button, conversions>>

\* select_file: the open dialog answers path, a name ending in .mid (a
\* cancelled dialog and a name of another extension change nothing)
select_file(path) ==
    /\ selected_file' = path
    /\ process_mapped' = TRUE
    /\ UNCHANGED <<search_results, curselection, download_button,
                   results_visible, downloads, converter, process_button,
                   conversions>>

\* a click on the Process button, which a disabled or hidden button does not
\* deliver: the processing window opens with its Close button disabled, the
\* Process button is disabled and the worker thread is started.  clicked
\* records the file selected at the click
open_process_page ==
    /\ process_mapped /\ process_button = "normal"
    /\ selected_file # "None"
    /\ Len(conversions) < MaxConversions
    /\ process_button' = "disabled"
    /\ conversions' = Append(conversions,
          [phase |-> "started", clicked |-> selected_file,
           converted |-> "None", printed |-> "None", error |-> FALSE,
           process_window |-> "open", close_button |-> "disabled"])
    /\ UNCHANGED <<selected_file, search_results, curselection,
                   download_button, results_visible, downloads, converter,
                   process_mapped>>

\* the worker thread: it reads self.selected_file when it runs, converts
\* that file (the call modelled above, here with its outcome only: a package
\* or an error) and queues on_complete for the main loop
worker(c, error) ==
    /\ conversions[c].phase = "started"
    /\ conversions' = [conversions EXCEPT ![c].phase = "queued",
                                          ![c].converted = selected_file,
                                          ![c].error = error]
    /\ UNCHANGED <<selected_file, search_results, curselection,
                   download_button, results_visible, downloads, converter,
                   process_button, process_mapped>>

\* the processing window is a plain Toplevel: the user can close it through
\* the window manager at any time (and through its Close button once that is
\* enabled), which destroys the window and its widgets
process_window_destroy(c) ==
    /\ conversions[c].process_window = "open"
    /\ conversions' = [conversions EXCEPT ![c].process_window = "destroyed"]
    /\ UNCHANGED <<selected_file, search_results, curselection,
                   download_button, results_visible, downloads, converter,
                   process_button, process_mapped>>

\* the main loop runs the queued on_complete of a conversion.  Its first
\* statement, progress_bar.stop(), raises TclError on a destroyed window and
\* the rest does not run; else the package is printed under the stem of
\* self.selected_file as it is now, and both buttons are enabled
worker_on_complete(c) ==
    /\ conversions[c].phase = "queued"
    /\ IF conversions[c].process_window = "destroyed"
       THEN /\ conversions' = [conversions EXCEPT ![c].phase = "done"]
            /\ UNCHANGED process_button
       ELSE /\ conversions' = [conversions EXCEPT
                  ![c].phase = "done",
                  ![c].printed = IF conversions[c].error THEN "None"
                                 ELSE selected_file,
                  ![c].close_button = "normal"]
            /\ process_button' = "normal"
    /\ UNCHANGED <<selected_file, search_results, curselection,
                   download_button, results_visible, downloads, converter,
                   process_mapped>>

NextGui ==
    \/ \E n \in 0..MaxResults : perform_search(n)
    \/ _on_source_change
    \/ \E i \in 0..Len(search_results) : _on_result_select(i)
    \/ \E save_path \in SavePaths : download_selected_result(save_path)
    \/ \E d \in 1..Len(downloads) : \E error \in BOOLEAN : do_download(d, error)
    \/ \E d \in 1..Len(downloads) : on_complete(d)
    \/ \E path \in OpenPaths : select_file(path)
    \/ open_process_page
    \/ \E c \in 1..Len(conversions) : \E error \in BOOLEAN : worker(c, error)
    \/ \E c \in 1..Len(conversions) : process_window_destroy(c)
    \/ \E c \in 1..Len(conversions) : worker_on_complete(c)

\* the window alone
InitWindow ==
    /\ file = MissingFile
    /\ other = IdleFrame(MissingFile)
    /\ InitState

SpecGui == InitWindow /\ [][NextGui]_vars

SpecSmpte == InitSmpte /\ [][Next]_vars

(***************************************************************************)
(* What the properties below are stated over: the input file, read         *)
(* independently of the conversion, and the values the calls returned.     *)
(***************************************************************************)
ReturnedValues ==
    { results[k].value : k \in { j \in 1..Len(results) :
                                   results[j].status = "returned" } }

\* absolute tick of the i-th message of a track: the prefix sum of its deltas
RECURSIVE AbsTick(_, _)
AbsTick(track, i) ==
    IF i = 0 THEN 0 ELSE AbsTick(track, i - 1) + track[i].time

\* <<track index, in-track sequence number>> of every message
Positions(tracks) ==
    UNION { { <<t, i>> : i \in 1..Len(tracks[t]) } : t \in 1..Len(tracks) }

MsgAt(tracks, p) == tracks[p[1]][p[2]]

TickAt(tracks, p) == AbsTick(tracks[p[1]], p[2])

\* (absolute_tick, track_index, in-track sequence number), lexicographic
KeyBefore(tracks, p, q) ==
    \/ TickAt(tracks, p) < TickAt(tracks, q)
    \/ /\ TickAt(tracks, p) = TickAt(tracks, q)
       /\ \/ p[1] < q[1]
          \/ p[1] = q[1] /\ p[2] < q[2]

\* the positions of P in key order
InKeyOrder(tracks, P) ==
    [r \in 1..Cardinality(P) |->
        CHOOSE p \in P :
            Cardinality({ q \in P : KeyBefore(tracks, q, p) }) = r - 1]

IsActivate(m) == m.type = "note_on" /\ m.velocity > 0

IsDeactivate(m) ==
    m.type = "note_off" \/ (m.type = "note_on" /\ m.velocity = 0)

NotePositions(tracks) ==
    { p \in Positions(tracks) :
        IsActivate(MsgAt(tracks, p)) \/ IsDeactivate(MsgAt(tracks, p)) }

\* the note messages of the file in key order
SourceNotes == InKeyOrder(file.tracks, NotePositions(file.tracks))

CountEvents(evs, type, note) ==
    Cardinality({ i \in 1..Len(evs) :
                    evs[i].type = type /\ evs[i].note = note })

(***************************************************************************)
(* C1: the events list a call returns is sorted non-decreasing by time_ms. *)
(***************************************************************************)
OutputSortedByTime ==
    \A v \in ReturnedValues :
        \A i \in 1..(Len(v.events) - 1) :
            v.events[i].time_ms <= v.events[i + 1].time_ms

\* a returned list whose events lie at different times
OutputSortedWitness ==
    \E v \in ReturnedValues :
        /\ Len(v.events) >= 2
        /\ v.events[1].time_ms < v.events[Len(v.events)].time_ms

(***************************************************************************)
(* C2: per note, the returned list holds as many "on" events as the file   *)
(* has note_on messages with velocity > 0 and as many "off" events as it   *)
(* has note_off messages plus note_on messages with velocity 0; the list   *)
(* holds nothing else.                                                     *)
(***************************************************************************)
EventCountsMatchSource ==
    \A v \in ReturnedValues :
        LET P == Positions(file.tracks)
            notes == { MsgAt(file.tracks, p).note : p \in P }
                     \cup { v.events[i].note : i \in 1..Len(v.events) }
        IN  /\ \A n \in notes :
                /\ CountEvents(v.events, "on", n)
                   = Cardinality({ p \in P :
                         /\ IsActivate(MsgAt(file.tracks, p))
                         /\ MsgAt(file.tracks, p).note = n })
                /\ CountEvents(v.events, "off", n)
                   = Cardinality({ p \in P :
                         /\ IsDeactivate(MsgAt(file.tracks, p))
                         /\ MsgAt(file.tracks, p).note = n })
            /\ \A i \in 1..Len(v.events) : v.events[i].type \in {"on", "off"}

\* a file with a velocity-0 note_on and a note_off that nothing matches
EventCountsWitness ==
    /\ file.tracks = << <<NoteOn(240, 60, 0), NoteOff(480, 64)>> >>
    /\ \E v \in ReturnedValues : Len(v.events) = 2

TempoPositions(tracks) ==
    { p \in Positions(tracks) : MsgAt(tracks, p).type = "set_tempo" }

TempoIsEarliestTick ==
    \A v \in ReturnedValues :
        LET T == TempoPositions(file.tracks)
        IN  T # {} =>
              v.tempo_us_per_beat
                = MsgAt(file.tracks, InKeyOrder(file.tracks, T)[1]).tempo

(***************************************************************************)
(* C5: a file without any set_tempo message yields tempo_us_per_beat =     *)
(* 500000, and resolving the tempo never makes the call raise, also for a  *)
(* file of zero tracks or of empty tracks.                                 *)
(***************************************************************************)
TempoDefaultsTo500000 ==
    /\ TempoPositions(file.tracks) = {} =>
          /\ \A v \in ReturnedValues : v.tempo_us_per_beat = 500000
          /\ pc \in {"init", "walk", "return"} => tempo_us_per_beat = 500000
    /\ file.valid =>
          /\ pc \in {"init", "walk", "return"} => tempo_us_per_beat \in Nat
          /\ \A k \in 1..Len(results) : results[k].status # "raised"

\* the file of zero tracks, converted
TempoDefaultWitness ==
    /\ file = MidiFile(480, << >>)
    /\ \E v \in ReturnedValues :
          v.tempo_us_per_beat = 500000 /\ v.events = << >>

(***************************************************************************)
(* C6: every returned event's time_ms is                                   *)
(* floor(absolute_tick * tempo_us_per_beat / ticks_per_beat / 1000),       *)
(* exact in integers, where absolute_tick is the tick of the event's       *)
(* message, for small and for large ticks alike.                           *)
(***************************************************************************)
ExactMs(ticks, tpb, tempo) ==
    BigToInt(BigDiv(BigDiv(BigMul(BigFromInt(ticks), BigFromInt(tempo)), tpb),
                    1000))

TimeMsIsExactFloor ==
    \A v \in ReturnedValues :
        /\ Len(v.events) = Len(SourceNotes)
        /\ \A i \in 1..Len(v.events) :
              v.events[i].time_ms
                = ExactMs(TickAt(file.tracks, SourceNotes[i]),
                          v.ticks_per_beat, v.tempo_us_per_beat)

(***************************************************************************)
(* C7: the merged stream is the file's messages in the order of the key    *)
(* (absolute_tick, track_index, in-track sequence number); two note_on     *)
(* messages at one absolute tick on different tracks are returned with the *)
(* lower track's event first and with equal time_ms, 0 at tick 0.          *)
(***************************************************************************)
MergedInKeyOrder ==
    /\ pc \in {"walk", "return"} =>
          LET K == InKeyOrder(file.tracks,
                     { p \in Positions(file.tracks) :
                         MsgAt(file.tracks, p).type # "end_of_track" })
          IN  /\ Len(merged) = Len(K) + 1
              /\ \A i \in 1..Len(K) :
                    [merged[i] EXCEPT !.time = AbsTick(merged, i)]
                      = [MsgAt(file.tracks, K[i])
                           EXCEPT !.time = TickAt(file.tracks, K[i])]
    /\ \A v \in ReturnedValues :
          \A i, j \in 1..Len(SourceNotes) :
              LET a == MsgAt(file.tracks, SourceNotes[i])
                  b == MsgAt(file.tracks, SourceNotes[j])
              IN  (/\ IsActivate(a) /\ IsActivate(b)
                   /\ SourceNotes[i][1] < SourceNotes[j][1]
                   /\ TickAt(file.tracks, SourceNotes[i])
                        = TickAt(file.tracks, SourceNotes[j]))
                  => /\ i < j /\ j <= Len(v.events)
                     /\ v.events[i].type = "on" /\ v.events[j].type = "on"
                     /\ v.events[i].note = a.note
                     /\ v.events[i].velocity = a.velocity
                     /\ v.events[j].note = b.note
                     /\ v.events[j].velocity = b.velocity
                     /\ v.events[i].time_ms = v.events[j].time_ms
                     /\ TickAt(file.tracks, SourceNotes[i]) = 0
                          => v.events[i].time_ms = 0

\* one note_on at tick 0 on each of two tracks, converted
MergedInKeyOrderWitness ==
    /\ file.tracks = << <<NoteOn(0, 64, 90)>>, <<NoteOn(0, 60, 100)>> >>
    /\ \E v \in ReturnedValues :
          v.events = << SolenoidEvent(0, 64, 90, "on"),
                        SolenoidEvent(0, 60, 100, "on") >>

(***************************************************************************)
(* C8: every deactivating message of the file, matched by an earlier       *)
(* activation or not, yields exactly one "off" event with its note,        *)
(* velocity 0 and the time_ms of its own absolute tick, and the call       *)
(* returns.                                                                *)
(***************************************************************************)
DeactivateAlwaysEmitted ==
    /\ \A v \in ReturnedValues :
          /\ Len(v.events) = Len(SourceNotes)
          /\ \A i \in 1..Len(SourceNotes) :
                LET m == MsgAt(file.tracks, SourceNotes[i])
                IN  IsDeactivate(m) =>
                      v.events[i]
                        = SolenoidEvent(
                            _ticks_to_ms(TickAt(file.tracks, SourceNotes[i]),
                                         v.ticks_per_beat, v.tempo_us_per_beat),
                            m.note, 0, "off")
    /\ (file.valid /\ pc = "idle" /\ Len(results) > 0)
          => results[Len(results)].status = "returned"

\* a track holding only a note_off for note 64, converted
DeactivateUnmatchedWitness ==
    /\ file.tracks = << <<NoteOff(480, 64)>> >>
    /\ \E v \in ReturnedValues :
          v.events = << SolenoidEvent(500, 64, 0, "off") >>

(***************************************************************************)
(* C9: two calls on the same input have the same outcome: the same         *)
(* ticks_per_beat, tempo_us_per_beat, events in the same order and         *)
(* note_to_channel.                                                        *)
(***************************************************************************)
CallsAgree ==
    \A j, k \in 1..Len(results) : results[j] = results[k]

\* the two-track song converted twice
CallsAgreeWitness ==
    /\ file = TwoTrackSongFile
    /\ Len(results) >= 2
    /\ results[1].status = "returned" /\ results[2].status = "returned"
    /\ Len(results[2].value.events) = 4

(***************************************************************************)
(* C10: on bytes that are no MIDI container every call ends in the parse   *)
(* error, raised at the load before any tempo, merge or timeline work:     *)
(* no value is returned and no local of the walk is ever assigned.         *)
(***************************************************************************)
MalformedInputRaises ==
    (file.exists /\ ~file.valid) =>
        /\ pc \in {"idle", "load"}
        /\ \A k \in 1..Len(results) : results[k] = Raised("ParseError")
        /\ ReturnedValues = {}
        /\ merged = << >> /\ events = << >> /\ active_notes = EmptyDict
        /\ pos = 0 /\ current_ticks = 0
        /\ ticks_per_beat = 0 /\ tempo_us_per_beat = 0

\* a call on the malformed file has ended
MalformedInputWitness ==
    /\ file = MalformedFile
    /\ pc = "idle"
    /\ Len(results) >= 1
    /\ results[1] = Raised("ParseError")

\* C11: when the path names no file the call raises the not-found error,
\* which is neither the parser's error nor a returned (empty) result, and
\* the parser is never invoked: the call never reaches the load step and mid
\* is never assigned.
MissingInputRaisesNotFound ==
    ~file.exists =>
        /\ \A i \in 1..Len(results) :
              /\ results[i] = Raised("FileNotFoundError")
              /\ results[i] # Raised("ParseError")
              /\ results[i].status # "returned"
        /\ pc = "idle"
        /\ mid = [ticks_per_beat |-> 0, tracks |-> << >>]

MissingInputWitness ==
    /\ ~file.exists
    /\ Len(results) >= 1
    /\ results[1] = Raised("FileNotFoundError")

PendingActivations(n, k) ==
    { i \in 1..k :
        /\ IsActivate(merged[i]) /\ merged[i].note = n
        /\ ~\E j \in (i + 1)..k :
               IsDeactivate(merged[j]) /\ merged[j].note = n }

LastActivationWins ==
    pc = "walk" =>
        LET k == pos - 1
            walked == { i \in 1..k :
                          IsActivate(merged[i]) \/ IsDeactivate(merged[i]) }
            nth(r) == CHOOSE i \in walked :
                          Cardinality({ j \in walked : j < i }) = r - 1
            noted == { merged[i].note : i \in walked }
        IN  /\ \A n \in 0..127 : n \in DOMAIN active_notes => n \in noted
            /\ \A n \in noted :
                  LET P == PendingActivations(n, k)
                  IN  /\ n \in DOMAIN active_notes <=> P # {}
                      /\ P # {} =>
                            active_notes[n]
                              = AbsTick(merged, CHOOSE i \in P :
                                                    \A j \in P : j <= i)
            /\ Len(events) = Cardinality(walked)
            /\ \A r \in 1..Len(events) :
                  /\ events[r].note = merged[nth(r)].note
                  /\ events[r].type
                       = IF IsActivate(merged[nth(r)]) THEN "on" ELSE "off"

\* the second note_on of note 60 has replaced tick 0 by tick 240
LastActivationWitness ==
    /\ file = RepeatedNoteFile
    /\ pc = "walk" /\ pos = 3
    /\ active_notes = [n \in {60} |-> 240]
    /\ events = <<SolenoidEvent(0, 60, 100, "on"),
                  SolenoidEvent(250, 60, 80, "on")>>

(***************************************************************************)
(* C15: a step of the walk over a set_tempo or any other non-note message  *)
(* adds the message's delta to the tick counter; no step of the walk       *)
(* changes tempo_us_per_beat or ticks_per_beat, which keep the values      *)
(* fixed before the walk (the header's ticks_per_beat and the resolved     *)
(* tempo); every event a step appends is converted with that pair.         *)
(***************************************************************************)
NonNoteMessagesOnlyAdvanceTicks ==
    [][/\ (AtMessage /\ ~IsActivate(msg) /\ ~IsDeactivate(msg)) =>
            /\ current_ticks' = current_ticks + msg.time
            /\ pos' = pos + 1
       /\ pc = "walk" =>
            /\ tempo_us_per_beat' = tempo_us_per_beat
            /\ ticks_per_beat' = ticks_per_beat
            /\ ticks_per_beat = file.ticks_per_beat
            /\ tempo_us_per_beat = _extract_tempo_us_per_beat(file.tracks)
       /\ (pc = "walk" /\ Len(events') = Len(events) + 1) =>
            events'[Len(events')].time_ms
              = _ticks_to_ms(current_ticks + msg.time, file.ticks_per_beat,
                             _extract_tempo_us_per_beat(file.tracks))
      ]_vars

\* a set_tempo 480 ticks into the stream has been walked: the note_off that
\* follows lies at tick 960, converted with the tempo fixed before the walk
NonNoteAdvanceWitness ==
    /\ file.tracks = << <<SetTempo(480, 1000000), NoteOff(480, 60)>> >>
    /\ pc = "walk" /\ pos = 3
    /\ current_ticks = 960
    /\ tempo_us_per_beat = 1000000
    /\ events = <<SolenoidEvent(2000, 60, 0, "off")>>

(***************************************************************************)
(* C16: the merged stream the walk reads holds as many messages as the     *)
(* input tracks hold in all, and is a permutation of their messages (each  *)
(* at its absolute tick).                                                  *)
(***************************************************************************)
\* a message with its absolute tick in place of its delta
AtTick(m, tick) == [m EXCEPT !.time = tick]

InputAtTicks(x) ==
    { p \in Positions(file.tracks) :
        AtTick(MsgAt(file.tracks, p), TickAt(file.tracks, p)) = x }

MergedAtTicks(x) ==
    { i \in 1..Len(merged) : AtTick(merged[i], AbsTick(merged, i)) = x }

MergedIsPermutationOfInput ==
    pc \in {"walk", "return"} =>
        /\ Len(merged) = Cardinality(Positions(file.tracks))
        /\ \A p \in Positions(file.tracks) :
              LET x == AtTick(MsgAt(file.tracks, p), TickAt(file.tracks, p))
              IN  Cardinality(MergedAtTicks(x)) = Cardinality(InputAtTicks(x))

\* C16, amended: every message other than end_of_track is in the merged
\* stream as often as in the input tracks, at its absolute tick, and nothing
\* else is but one end_of_track, the stream's last message; the stream
\* holds one message more than the tracks hold messages other than
\* end_of_track.
MergedKeepsAllButEndOfTrack ==
    pc \in {"walk", "return"} =>
        LET kept == { p \in Positions(file.tracks) :
                        MsgAt(file.tracks, p).type # "end_of_track" }
        IN  /\ Len(merged) = Cardinality(kept) + 1
            /\ merged[Len(merged)].type = "end_of_track"
            /\ \A i \in 1..(Len(merged) - 1) :
                  /\ merged[i].type # "end_of_track"
                  /\ LET x == AtTick(merged[i], AbsTick(merged, i))
                     IN  Cardinality(MergedAtTicks(x))
                           = Cardinality(InputAtTicks(x))
            /\ \A p \in kept :
                  LET x == AtTick(MsgAt(file.tracks, p), TickAt(file.tracks, p))
                  IN  Cardinality(MergedAtTicks(x))
                        = Cardinality(InputAtTicks(x))

\* the two-track song: seven messages, two of them end_of_track, merged to six
MergedKeepsWitness ==
    /\ file = TwoTrackSongFile
    /\ pc = "walk"
    /\ Len(merged) = 6
    /\ Cardinality(Positions(file.tracks)) = 7

(***************************************************************************)
(* C17: the final sort is a no-op.  The events the walk has appended are   *)
(* sorted by time_ms at every step of the walk, and the sorting step       *)
(* leaves the list exactly as the walk appended it.                        *)
(***************************************************************************)
FinalSortIsNoOp ==
    [][/\ pc = "walk" =>
            \A i \in 1..(Len(events) - 1) :
                events[i].time_ms <= events[i + 1].time_ms
       /\ (pc = "walk" /\ pc' = "return") => events' = events
      ]_vars

\* the sorting step has run on a list of events at different times and at
\* equal times
FinalSortWitness ==
    /\ file = TwoTrackSongFile
    /\ pc = "return"
    /\ events = <<SolenoidEvent(0, 60, 100, "on"),
                  SolenoidEvent(0, 64, 90, "on"),
                  SolenoidEvent(250, 60, 0, "off"),
                  SolenoidEvent(500, 64, 0, "off")>>

(***************************************************************************)
(* C19: once a well-formed file is loaded the conversion is total (zero    *)
(* tracks, empty tracks, unmatched and repeated notes included): no step   *)
(* raises; every step of a call either returns its result or moves the     *)
(* call forward, to a later stage or to the next message of the finite     *)
(* merged stream, so the call ends after finitely many steps; a file       *)
(* without note messages returns an empty events list together with the    *)
(* header's ticks_per_beat and the resolved tempo.                         *)
(***************************************************************************)
Stage(p) ==
    CASE p = "idle" -> 0 [] p = "load" -> 1 [] p = "header" -> 2
      [] p = "init" -> 3 [] p = "walk" -> 4 [] p = "return" -> 5

ConversionIsTotal ==
    [][file.valid =>
         /\ \A k \in 1..Len(results') : results'[k].status = "returned"
         /\ \/ /\ pc = "return" /\ pc' = "idle"
               /\ Len(results') = Len(results) + 1
            \/ /\ Stage(pc') > Stage(pc)
               /\ results' = results
            \/ /\ pc = "walk" /\ pc' = "walk"
               /\ pos <= Len(merged) /\ pos' = pos + 1
               /\ merged' = merged /\ results' = results
         /\ NotePositions(file.tracks) = {} =>
               \A k \in 1..Len(results') :
                   /\ results'[k].value.events = << >>
                   /\ results'[k].value.ticks_per_beat = file.ticks_per_beat
                   /\ results'[k].value.tempo_us_per_beat
                        = _extract_tempo_us_per_beat(file.tracks)
      ]_vars

\* two empty tracks, and every call made has returned the empty list
ConversionTotalWitness ==
    /\ file.tracks = << << >>, << >> >>
    /\ pc = "idle"
    /\ Len(results) = MaxCalls
    /\ \A k \in 1..Len(results) :
          /\ results[k].status = "returned"
          /\ results[k].value.events = << >>
          /\ results[k].value.ticks_per_beat = 480
          /\ results[k].value.tempo_us_per_beat = 500000

(***************************************************************************)
(* C18: a file whose header declares an SMPTE division, a ticks_per_beat   *)
(* that is not positive, makes every call raise: no call returns a result  *)
(* for it, so none with a ticks_per_beat that is not positive and none     *)
(* with time_ms computed from one.                                         *)
(***************************************************************************)
SmpteDivisionIsRejected ==
    (file.valid /\ file.ticks_per_beat <= 0) =>
        /\ \A k \in 1..Len(results) : results[k].status = "raised"
        /\ \A v \in ReturnedValues :
              /\ v.ticks_per_beat > 0
              /\ \A i \in 1..Len(v.events) : v.events[i].time_ms >= 0

(***************************************************************************)
(* C13: conversions on two threads do not interfere.  Under every          *)
(* interleaving of the steps of the two threads' calls, each call ends     *)
(* with the outcome a call on its file has when it runs alone, and the     *)
(* module-level NOTE_TO_CHANNEL keeps the value it was defined with.       *)
(***************************************************************************)
\* the outcome of one call on f that nothing interleaves with: the error of
\* a missing or malformed file, else the header's ticks_per_beat, the
\* file's first tempo and one event per note message, in key order
ResultAlone(f) ==
    IF ~f.exists THEN Raised("FileNotFoundError")
    ELSE IF ~f.valid THEN Raised("ParseError")
    ELSE LET tempo == _extract_tempo_us_per_beat(f.tracks)
             notes == InKeyOrder(f.tracks, NotePositions(f.tracks))
         IN  Returned(
               [ticks_per_beat    |-> f.ticks_per_beat,
                tempo_us_per_beat |-> tempo,
                events |->
                  [i \in 1..Len(notes) |->
                     LET m == MsgAt(f.tracks, notes[i])
                     IN  SolenoidEvent(
                           _ticks_to_ms(TickAt(f.tracks, notes[i]),
                                        f.ticks_per_beat, tempo),
                           m.note,
                           IF IsActivate(m) THEN m.velocity ELSE 0,
                           IF IsActivate(m) THEN "on" ELSE "off")],
                note_to_channel   |-> EmptyDict])

ThreadsDoNotInterfere ==
    /\ NOTE_TO_CHANNEL = EmptyDict
    /\ \A k \in 1..Len(results) : results[k] = ResultAlone(file)
    /\ \A k \in 1..Len(other.results) :
          other.results[k] = ResultAlone(other.file)

\* one thread has returned the two-track song while the other is halfway
\* through its walk over the repeated note
ThreadsInterleavedWitness ==
    /\ file = TwoTrackSongFile
    /\ Len(results) = 1 /\ results[1].status = "returned"
    /\ Len(results[1].value.events) = 4
    /\ other.file = RepeatedNoteFile
    /\ other.pc = "walk" /\ other.pos = 3
    /\ other.results = << >>

(***************************************************************************)
(* C20: while a download is in progress, from the click that started it    *)
(* until its on_complete has run, the Download button is disabled,         *)
(* whatever the user does meanwhile (picks a result, searches again,       *)
(* changes the source); so no two downloads are ever in progress at once.  *)
(***************************************************************************)
InProgress ==
    { d \in 1..Len(downloads) : downloads[d].phase \in {"running", "queued"} }

DownloadButtonStaysDisabled ==
    /\ InProgress # {} => download_button = "disabled"
    /\ Cardinality(InProgress) <= 1

(***************************************************************************)
(* C21: at most one conversion worker is in flight at any time: the        *)
(* Process button is disabled from the click that starts a worker until    *)
(* the worker's on_complete has run, whatever else happens meanwhile, and  *)
(* once on_complete has run (after a package or after an error) the       *)
(* Process button and the Close button of the processing window are        *)
(* enabled again.                                                          *)
(***************************************************************************)
InFlight ==
    { c \in 1..Len(conversions) :
        conversions[c].phase \in {"started", "queued"} }

AtMostOneWorker == Cardinality(InFlight) <= 1

ProcessDisabledWhileInFlight ==
    InFlight # {} => process_button = "disabled"

ProcessEnabledAfterComplete ==
    /\ InFlight = {} => process_button = "normal"
    /\ \A c \in 1..Len(conversions) :
          conversions[c].phase = "done" =>
              \/ conversions[c].close_button = "normal"
              \/ conversions[c].process_window = "destroyed"

OneConversionAtATime ==
    /\ AtMostOneWorker
    /\ ProcessDisabledWhileInFlight
    /\ ProcessEnabledAfterComplete

(***************************************************************************)
(* C22: the file a conversion worker converts, and the file named with     *)
(* the package that on_complete prints, is the file that was selected      *)
(* when Process was clicked, whatever select_file or a download's          *)
(* on_complete does to selected_file while the conversion runs.            *)
(***************************************************************************)
ConvertedIsClicked ==
    \A c \in 1..Len(conversions) :
        conversions[c].converted # "None" =>
            conversions[c].converted = conversions[c].clicked

PrintedIsClicked ==
    \A c \in 1..Len(conversions) :
        conversions[c].printed # "None" =>
            conversions[c].printed = conversions[c].clicked

ConversionUsesClickedFile ==
    /\ ConvertedIsClicked
    /\ PrintedIsClicked
====
